---- MODULE Spec2Model ----
(***************************************************************************)
(* Model of persephone/corpus.py: construction of a Corpus over a target   *)
(* directory (directory validation, label index, feature gate, split       *)
(* resolution, training-set ordering, overlap audit, snapshot).            *)
(*                                                                         *)
(* Prefixes (utterance identifiers) are strings in the program.  Here a    *)
(* prefix is a positive integer: prefix k is the k-th name in the          *)
(* lexicographic order Python's sorted() uses, so integer order stands for *)
(* string order.  0 stands for the empty string.                           *)
(***************************************************************************)
EXTENDS Integers, Sequences, FiniteSets, TLC

\* ------------------------------------------------------------------------
\* Bounds of the model
\* ------------------------------------------------------------------------

\* Largest number of prefixes that have both a wav and a label file.
MaxN == 21

\* Largest universe in the scenarios that enumerate manifest contents.
SmallN == 3

\* Largest number of lines of a manifest file that exists before construction.
MaxLines == 2

\* Number of constructions run one after the other on a target directory.
MaxRuns == 2

\* ------------------------------------------------------------------------
\* Program constants
\* ------------------------------------------------------------------------

\* __init__(..., max_samples=1000, ...)
max_samples == 1000

\* divide_prefixes(prefixes, seed=0)
DefaultSeed == 0

\* ratios = Ratios(.90, .05, .05), in hundredths.  For every list length n up
\* to 200000 the floating point results int(.90*n) and int(train_end + .05*n)
\* equal the integer quotients used below.
RatioTrain == 90
RatioValid == 5

\* ------------------------------------------------------------------------
\* Generic helpers
\* ------------------------------------------------------------------------

Range(s) == {s[i] : i \in DOMAIN s}

SetMin(S) == CHOOSE x \in S : \A y \in S : x <= y

SetMax(S) == CHOOSE x \in S : \A y \in S : y <= x

\* Python's sorted(list(S)) for a set of prefixes.
RECURSIVE SortedSeq(_)
SortedSeq(S) == IF S = {} THEN <<>> ELSE <<SetMin(S)>> \o SortedSeq(S \ {SetMin(S)})

\* Python slice s[from:to] with 0-based, end-exclusive indices (0 <= from).
Slice(s, from, to) ==
    LET hi == IF to > Len(s) THEN Len(s) ELSE to
    IN  IF from >= hi THEN <<>> ELSE [i \in 1..(hi - from) |-> s[from + i]]

\* All the orders in which the elements of a set can be listed.
Orderings(S) ==
    {s \in [1..Cardinality(S) -> S] : \A i, j \in DOMAIN s : s[i] = s[j] => i = j}

\* ------------------------------------------------------------------------
\* The target directory
\* ------------------------------------------------------------------------

Splits == {"train", "valid", "test"}

\* A prefix with a wav file and no label file, and one with a label file only.
WavOnlyPrefix == MaxN + 1
LabelOnlyPrefix == MaxN + 2

AllPrefixes == 1..(MaxN + 2)

\* One line of a manifest file: its text and whether the text is surrounded
\* by blanks.  text = 0 is a line with nothing but blanks (or nothing at all)
\* before the newline.
Line(p, w) == [text |-> p, ws |-> w]

NoFile == [exists |-> FALSE, lines |-> <<>>]

File(ls) == [exists |-> TRUE, lines |-> ls]

\* line.strip()
Strip(line) == line.text

\* print(prefix, file=prefix_f): the prefix followed by a newline.  A negative
\* p is the in-memory string made of the name -p surrounded by blanks, which
\* is printed with its blanks.
Printed(p) == IF p < 0 THEN Line(-p, TRUE) ELSE Line(p, FALSE)

VARIABLES
    dirs,            \* which of tgt_dir, wav/, label/, feat/ exist
    wav_files,       \* prefixes p with wav/<p>.wav
    label_files,     \* prefixes p with label/<p>.<label_type>
    mono_files,      \* prefixes p with feat/<p>.wav
    feat_files,      \* prefixes p with feat/<p>.<feat_type>.npy
    feat_len,        \* leading dimension of the feature artifact of each prefix
    manifest,        \* train_prefixes.txt, valid_prefixes.txt, test_prefixes.txt
    snapshot,        \* corpus.p
    rng_state,       \* state of the process-wide generator of module random
    labels_arg,      \* the labels argument of the constructor
    labels, vocab_size, LABEL_TO_INDEX, INDEX_TO_LABEL,
    train_prefixes, valid_prefixes, test_prefixes,
    pc,              \* position of the constructor
    error,           \* the exception that ended the constructor, or "none"
    branch,          \* the branch make_data_splits took in this construction
    warnings,        \* warnings logged by the overlap audit
    extract_calls,   \* calls of feat_extract.from_dir in this construction
    convert_calls,   \* calls of feat_extract.convert_wav in this construction
    elan_utterances, \* the utterances from_elan holds, if it is the caller
    utterances,      \* the utterances field of the Corpus object
    snapshot_utterances, \* the utterances field of the object in corpus.p
    run,             \* number of the current construction
    prev             \* outcome of the previous construction

diskVars == <<dirs, wav_files, label_files, mono_files, feat_files, feat_len,
              manifest, snapshot>>
labelVars == <<labels, vocab_size, LABEL_TO_INDEX, INDEX_TO_LABEL>>
splitVars == <<train_prefixes, valid_prefixes, test_prefixes>>
histVars == <<run, prev>>
elanVars == <<elan_utterances, utterances, snapshot_utterances>>
vars == <<diskVars, labelVars, splitVars, histVars, rng_state, labels_arg,
          pc, error, branch, warnings, extract_calls, convert_calls, elanVars>>


\* ------------------------------------------------------------------------
\* LabelIndex: Corpus.initialize_labels
\* ------------------------------------------------------------------------

\* The label tokens of the model, listed in the lexicographic order of
\* sorted(); "pad" is the reserved padding token.
TokenOrder == <<"a", "k", "p", "pad", "t", "z">>

Tokens == Range(TokenOrder)

\* sorted(list(self.labels))
SortedLabels(L) == SelectSeq(TokenOrder, LAMBDA t : t \in L)

\* ["pad"] + sorted(list(self.labels))
LabelList(L) == <<"pad">> \o SortedLabels(L)

\* {label: index for index, label in enumerate(LabelList)}: a later entry of
\* the enumeration replaces an earlier one with the same key.
LabelToIndex(L) ==
    LET lst == LabelList(L)
    IN  [t \in Range(lst) |-> SetMax({i \in DOMAIN lst : lst[i] = t}) - 1]

\* {index: phn for index, phn in enumerate(LabelList)}
IndexToLabel(L) ==
    LET lst == LabelList(L)
    IN  [i \in 0..(Len(lst) - 1) |-> lst[i + 1]]

\* ------------------------------------------------------------------------
\* PrefixStore: Corpus.read_prefixes, Corpus.write_prefixes
\* ------------------------------------------------------------------------

\* A read_prefixes that returns the distinct prefixes of the file in sorted
\* order instead of the lines in file order.
ReadPrefixesSorted(file) ==
    LET stripped == SortedSeq({Strip(file.lines[i]) : i \in 1..Len(file.lines)})
    IN  [ok |-> stripped # <<>>, prefixes |-> stripped]

\* read_prefixes: the stripped lines in file order; raises when the file has
\* no line at all.
ReadPrefixes(file) ==
    LET stripped == [i \in 1..Len(file.lines) |-> Strip(file.lines[i])]
    IN  [ok |-> stripped # <<>>, prefixes |-> stripped]

\* A write_prefixes whose loop stops one prefix early.
WritePrefixesShort(prefixes, old) ==
    IF prefixes = <<>>
    THEN [ok |-> FALSE, file |-> old]
    ELSE [ok |-> TRUE,
          file |-> File([i \in 1..(Len(prefixes) - 1) |-> Printed(prefixes[i])])]

\* A write_prefixes that opens the file for writing before it looks at the
\* list.
WritePrefixesTruncating(prefixes, old) ==
    IF prefixes = <<>>
    THEN [ok |-> FALSE, file |-> File(<<>>)]
    ELSE [ok |-> TRUE,
          file |-> File([i \in 1..Len(prefixes) |-> Printed(prefixes[i])])]

\* A write_prefixes that writes an empty list as an empty file.
WritePrefixesAny(prefixes, old) ==
    [ok |-> TRUE,
     file |-> File([i \in 1..Len(prefixes) |-> Printed(prefixes[i])])]

\* A write_prefixes that opens the file for appending.
WritePrefixesAppend(prefixes, old) ==
    IF prefixes = <<>>
    THEN [ok |-> FALSE, file |-> old]
    ELSE [ok |-> TRUE,
          file |-> File(old.lines \o [i \in 1..Len(prefixes) |-> Printed(prefixes[i])])]

\* write_prefixes: raises on an empty list before the file is opened;
\* otherwise the file is truncated and holds one printed prefix per line.
WritePrefixes(prefixes, old) ==
    IF prefixes = <<>>
    THEN [ok |-> FALSE, file |-> old]
    ELSE [ok |-> TRUE,
          file |-> File([i \in 1..Len(prefixes) |-> Printed(prefixes[i])])]

\* ------------------------------------------------------------------------
\* module random: seed() and shuffle()
\* ------------------------------------------------------------------------

\* The generator is a small linear congruential generator standing for the
\* Mersenne Twister: seeding fixes the state, every draw advances it.
Seeded(seed) == (seed * 7 + 1) % 251

RngNext(s) == (s * 33 + 7) % 251

\* random.shuffle: for i from the last position down to the second, swap
\* x[i] with x[j], j drawn uniformly from the positions up to i.
RECURSIVE ShuffleFrom(_, _, _)
ShuffleFrom(x, i, s) ==
    IF i < 2
    THEN [list |-> x, rng |-> s]
    ELSE LET s1 == RngNext(s)
             j == (s1 % i) + 1
         IN  ShuffleFrom([x EXCEPT ![i] = x[j], ![j] = x[i]], i - 1, s1)

Shuffle(x, s) == ShuffleFrom(x, Len(x), s)

\* ------------------------------------------------------------------------
\* Splitter: Corpus.divide_prefixes, Corpus.determine_prefixes
\* ------------------------------------------------------------------------

\* A train_end rounded to the nearest integer instead of truncated.
TrainEndRounded(n) == (RatioTrain * n + 50) \div 100

\* train_end = int(ratios.train*len(prefixes))
TrainEnd(n) == (RatioTrain * n) \div 100

\* valid_end = int(train_end + ratios.valid*len(prefixes))
ValidEnd(n) == (100 * TrainEnd(n) + RatioValid * n) \div 100

\* Assertions on the train and test slices only.
SlicesNonEmptyEnds(train, valid, test) == train # <<>> /\ test # <<>>

\* The three assert statements of divide_prefixes.
SlicesNonEmpty(train, valid, test) == train # <<>> /\ valid # <<>> /\ test # <<>>

\* A divide_prefixes that shuffles without seeding the generator first.
DividePrefixesUnseeded(prefixes, seed, rng) ==
    LET n == Len(prefixes)
        sh == Shuffle(prefixes, rng)
        train == Slice(sh.list, 0, TrainEnd(n))
        valid == Slice(sh.list, TrainEnd(n), ValidEnd(n))
        test == Slice(sh.list, ValidEnd(n), n)
    IN  [ok |-> SlicesNonEmpty(train, valid, test),
         train |-> train, valid |-> valid, test |-> test, rng |-> sh.rng]

\* divide_prefixes(prefixes, seed) run when the generator is in state rng.
DividePrefixes(prefixes, seed, rng) ==
    LET n == Len(prefixes)
        sh == Shuffle(prefixes, Seeded(seed))
        train == Slice(sh.list, 0, TrainEnd(n))
        valid == Slice(sh.list, TrainEnd(n), ValidEnd(n))
        test == Slice(sh.list, ValidEnd(n), n)
    IN  [ok |-> SlicesNonEmpty(train, valid, test),
         train |-> train, valid |-> valid, test |-> test, rng |-> sh.rng]

\* The orders in which a glob() may list the files of a directory.
GlobOrders(S) ==
    LET asc == SortedSeq(S)
    IN  {asc, [i \in 1..Len(asc) |-> asc[Len(asc) + 1 - i]]}

\* A determine_prefixes that returns an empty list instead of raising.
DeterminePrefixesLenient(label_prefixes, wav_prefixes) ==
    [ok |-> TRUE,
     prefixes |-> SortedSeq(Range(label_prefixes) \cap Range(wav_prefixes))]

\* determine_prefixes, given the two glob listings.
DeterminePrefixes(label_prefixes, wav_prefixes) ==
    LET prefixes == SortedSeq(Range(label_prefixes) \cap Range(wav_prefixes))
    IN  [ok |-> prefixes # <<>>, prefixes |-> prefixes]

\* A size filter that keeps every prefix.
FilterBySizeNone(prefixes, lens, max) == prefixes

\* utils.filter_by_size: keeps, in order, the prefixes whose feature length
\* does not exceed max.
FilterBySize(prefixes, lens, max) == SelectSeq(prefixes, LAMBDA p : lens[p] <= max)

\* utils.sort_by_size: ascending feature length; prefixes of equal length keep
\* their order.
RECURSIVE InsertBySize(_, _, _)
InsertBySize(sorted, p, lens) ==
    IF sorted = <<>> THEN <<p>>
    ELSE IF lens[sorted[Len(sorted)]] <= lens[p] THEN Append(sorted, p)
    ELSE Append(InsertBySize(SubSeq(sorted, 1, Len(sorted) - 1), p, lens),
                sorted[Len(sorted)])

RECURSIVE SortBySizeFrom(_, _, _, _)
SortBySizeFrom(prefixes, i, acc, lens) ==
    IF i > Len(prefixes) THEN acc
    ELSE SortBySizeFrom(prefixes, i + 1, InsertBySize(acc, prefixes[i], lens), lens)

\* A sort by size that lists each distinct prefix once.
SortBySizeDistinct(prefixes, lens) ==
    SortBySizeFrom(SortedSeq(Range(prefixes)), 1, <<>>, lens)

SortBySize(prefixes, lens) == SortBySizeFrom(prefixes, 1, <<>>, lens)

\* ------------------------------------------------------------------------
\* OverlapAuditor: Corpus.ensure_no_set_overlap
\* ------------------------------------------------------------------------

\* prefixes_to_fns maps distinct prefixes to distinct paths, so the sets of
\* feature paths overlap exactly when the sets of prefixes do.

\* An audit without its assert statements.
OverlapAssertsSkipped(train, valid, test) == TRUE

\* The six assert statements.
OverlapAssertsHold(train, valid, test) ==
    /\ train \ valid = train
    /\ train \ test = train
    /\ valid \ train = valid
    /\ valid \ test = valid
    /\ test \ train = test
    /\ test \ valid = test

\* The warnings logged after the assert statements.
OverlapWarnings(train, valid, test) ==
    {w \in {"train-valid", "train-test", "valid-test"} :
        \/ w = "train-valid" /\ train \cap valid # {}
        \/ w = "train-test" /\ train \cap test # {}
        \/ w = "valid-test" /\ valid \cap test # {}}


\* ------------------------------------------------------------------------
\* Initial states: a target directory before the first construction
\* ------------------------------------------------------------------------

AllDirs == {"tgt", "wav", "label", "feat"}

DefaultLabels == {"k", "p", "t"}

NoManifests == [f \in Splits |-> NoFile]

\* Feature lengths: the first `longs` prefixes exceed max_samples, the others
\* are at most max_samples (some exactly max_samples, some equal to each other).
FeatLenOf(longs) ==
    [p \in AllPrefixes |-> IF p <= longs THEN max_samples + 1
                           ELSE max_samples - (p % 3)]

\* Prefixes named by the manifest files that exist before construction: every
\* two files can name a common prefix, and the three can be pairwise disjoint.
ManifestPrefixes(f) ==
    IF f = "train" THEN {1, 3} ELSE IF f = "valid" THEN {1, 2} ELSE {2, 3}

RECURSIVE SeqsUpTo(_, _)
SeqsUpTo(S, n) ==
    IF n = 0 THEN {<<>>}
    ELSE LET shorter == SeqsUpTo(S, n - 1)
         IN  shorter \cup {Append(q, x) : q \in shorter, x \in S}

ManifestFiles(f) ==
    {NoFile} \cup
    {File(ls) : ls \in SeqsUpTo({Line(p, FALSE) : p \in ManifestPrefixes(f)}, MaxLines)}

\* The manifest files of a target directory, in every combination.
ManifestStates ==
    {m \in [Splits -> UNION {ManifestFiles(f) : f \in Splits}] :
        \A f \in Splits : m[f] \in ManifestFiles(f)}

Scenario(n, extras, longs, rng, feats, manifests, labs, ds) ==
    [n |-> n, extras |-> extras, longs |-> longs, rng |-> rng, feats |-> feats,
     feat_upto |-> IF feats THEN MaxN + 2 ELSE 0,
     mono_upto |-> IF feats THEN MaxN + 2 ELSE 0,
     manifests |-> manifests, labels |-> labs, dirs |-> ds, elan |-> FALSE]

\* Universes of every size with no manifest: the computed split.
SizeScenarios ==
    {Scenario(n, extras, longs, rng, feats, NoManifests, DefaultLabels, AllDirs) :
        n \in 0..MaxN, extras \in BOOLEAN, longs \in {0, 1}, rng \in 0..1,
        feats \in BOOLEAN}

\* Small universes with every combination of manifest files.
ManifestScenarios ==
    {Scenario(n, TRUE, 0, 0, FALSE, m, DefaultLabels, AllDirs) :
        n \in 0..SmallN, m \in ManifestStates}

\* Every label set.
LabelScenarios ==
    {Scenario(0, TRUE, 0, 0, FALSE, NoManifests, L, AllDirs) : L \in SUBSET Tokens}

\* Target directories with missing subdirectories.
DirScenarios ==
    {Scenario(0, TRUE, 0, 0, FALSE, NoManifests, DefaultLabels, ds) :
        ds \in {d \in SUBSET AllDirs : d # {} => "tgt" \in d}}

\* Manifest files that are empty, hold only blank lines, or hold a prefix
\* surrounded by blanks.
BlankFiles(f) ==
    {NoFile, File(<<>>), File(<<Line(0, FALSE)>>),
     File(<<Line(0, TRUE), Line(0, FALSE)>>),
     File(<<Line(SetMin(ManifestPrefixes(f)), TRUE)>>)}

BlankScenarios ==
    {Scenario(SmallN, TRUE, 0, 0, FALSE, m, DefaultLabels, AllDirs) :
        m \in {b \in [Splits -> UNION {BlankFiles(f) : f \in Splits}] :
                  \A f \in Splits : b[f] \in BlankFiles(f)}}

\* Feature directories in which the first wavs have their feature artifact
\* and the first wavs have their normalised copy.
FeatScenarios ==
    {[Scenario(SmallN, TRUE, 0, 0, FALSE, NoManifests, DefaultLabels, AllDirs)
         EXCEPT !.feat_upto = k, !.mono_upto = j] :
        k \in 0..SmallN, j \in 0..SmallN}

\* Small universes whose first prefixes exceed max_samples, with no train
\* manifest and every combination of valid and test manifests.
FilterScenarios ==
    {Scenario(n, TRUE, longs, 0, FALSE, m, DefaultLabels, AllDirs) :
        n \in 1..SmallN, longs \in 1..SmallN,
        m \in {ms \in ManifestStates : ~ms["train"].exists}}

\* Target directories that from_elan has filled with the label and wav files
\* of its utterances before it calls the constructor.
ElanScenarios ==
    {[Scenario(n, FALSE, 0, 0, feats, NoManifests, DefaultLabels, AllDirs)
         EXCEPT !.elan = TRUE] :
        n \in {SmallN, MaxN - 1, MaxN}, feats \in BOOLEAN}

Scenarios ==
    ElanScenarios \cup SizeScenarios \cup ManifestScenarios \cup LabelScenarios \cup DirScenarios
        \cup BlankScenarios \cup FeatScenarios \cup FilterScenarios

\* The utterances field: None, or the list of the utterances 1..n.
NoUtterances == [given |-> FALSE, records |-> <<>>]

UtteranceList(n) == [given |-> TRUE, records |-> [i \in 1..n |-> i]]

NoSnapshot == [exists |-> FALSE, train |-> <<>>, valid |-> <<>>, test |-> <<>>]

NoPrev == [pc |-> "none", error |-> "none", branch |-> "none",
           manifest |-> NoManifests, deleted |-> FALSE, extract_calls |-> 0,
           snapshot |-> NoSnapshot,
           train |-> <<>>, valid |-> <<>>, test |-> <<>>]

Init ==
    \E sc \in Scenarios :
        /\ dirs = sc.dirs
        /\ wav_files = IF "wav" \in sc.dirs
                       THEN (1..sc.n) \cup (IF sc.extras THEN {WavOnlyPrefix} ELSE {})
                       ELSE {}
        /\ label_files = IF "label" \in sc.dirs
                         THEN (1..sc.n) \cup (IF sc.extras THEN {LabelOnlyPrefix} ELSE {})
                         ELSE {}
        /\ mono_files = IF "feat" \in sc.dirs
                        THEN {p \in wav_files : p <= sc.mono_upto}
                        ELSE {}
        /\ feat_files = IF "feat" \in sc.dirs
                        THEN {p \in wav_files : p <= sc.feat_upto}
                        ELSE {}
        /\ feat_len = FeatLenOf(sc.longs)
        /\ manifest = IF "tgt" \in sc.dirs THEN sc.manifests ELSE NoManifests
        /\ snapshot = NoSnapshot
        /\ rng_state = sc.rng
        /\ labels_arg = sc.labels
        /\ labels = {}
        /\ vocab_size = 0
        /\ LABEL_TO_INDEX = <<>>
        /\ INDEX_TO_LABEL = <<>>
        /\ train_prefixes = <<>>
        /\ valid_prefixes = <<>>
        /\ test_prefixes = <<>>
        /\ pc = "start"
        /\ error = "none"
        /\ branch = "none"
        /\ warnings = {}
        /\ extract_calls = 0
        /\ convert_calls = 0
        /\ elan_utterances = IF sc.elan THEN UtteranceList(sc.n) ELSE NoUtterances
        /\ utterances = NoUtterances
        /\ snapshot_utterances = NoUtterances
        /\ run = 1
        /\ prev = NoPrev

\* ------------------------------------------------------------------------
\* Corpus.__init__, step by step
\* ------------------------------------------------------------------------

\* An exception leaves the constructor: no object is returned.
\* An exception that is caught and lets the constructor go on to its end.
RaiseSwallowed(e) == pc' = "pickle" /\ error' = e

Raise(e) == pc' = "failed" /\ error' = e

\* set_and_check_directories.  The exceptions are named as in the error
\* taxonomy: DirectoryError is FileNotFoundError for tgt_dir and
\* PersephoneException for wav/ and label/.
SetAndCheckDirectories ==
    /\ pc = "start"
    /\ IF "tgt" \notin dirs \/ "wav" \notin dirs
       THEN Raise("DirectoryError") /\ dirs' = dirs
       ELSE /\ dirs' = dirs \cup {"feat"}
            /\ IF "label" \notin dirs
               THEN Raise("DirectoryError")
               ELSE pc' = "labels" /\ error' = error
    /\ UNCHANGED <<wav_files, label_files, mono_files, feat_files, feat_len,
                   manifest, snapshot, labelVars, splitVars, histVars, rng_state,
                   labels_arg, branch, warnings, extract_calls,
                   convert_calls, elanVars>>

\* initialize_labels(labels)
InitializeLabels ==
    /\ pc = "labels"
    /\ labels' = labels_arg
    /\ vocab_size' = Cardinality(labels_arg)
    /\ LABEL_TO_INDEX' = LabelToIndex(labels_arg)
    /\ INDEX_TO_LABEL' = IndexToLabel(labels_arg)
    /\ pc' = "feats"
    /\ UNCHANGED <<diskVars, splitVars, histVars, rng_state, labels_arg, error,
                   branch, warnings, extract_calls,
                   convert_calls, elanVars>>

\* A scan that finds every wav lacking its feature artifact.
MissingFeatsAll(wavs, feats) == wavs

\* The wavs whose feature artifact is missing when prepare_feats scans wav/.
MissingFeats(wavs, feats) == {p \in wavs : p \notin feats}

\* feat_extract.from_dir(feat_dir, feat_type): one batched extraction, which
\* writes the feature artifact of every normalised wav in feat/.
FromDir(monos, feats) == feats \cup monos

\* prepare_feats: normalises (feat_extract.convert_wav) each wav that lacks a
\* feature artifact and a normalised copy, then runs one batched extraction
\* if any artifact was missing.
PrepareFeats ==
    /\ pc = "feats"
    /\ LET missing == MissingFeats(wav_files, feat_files)
           to_convert == missing \ mono_files
       IN  /\ mono_files' = mono_files \cup to_convert
           /\ convert_calls' = convert_calls + Cardinality(to_convert)
           /\ feat_files' = IF missing # {} THEN FromDir(mono_files', feat_files)
                            ELSE feat_files
           /\ extract_calls' = IF missing # {} THEN extract_calls + 1
                               ELSE extract_calls
    /\ dirs' = dirs \cup {"feat"}
    /\ pc' = "splits"
    /\ UNCHANGED <<wav_files, label_files, feat_len, manifest, snapshot, labelVars,
                   splitVars, histVars, rng_state, labels_arg, error, branch,
                   warnings, elanVars>>

\* make_data_splits, all three manifests exist: three reads in the order train,
\* valid, test; the first empty file raises and the later fields stay unset.
LoadAll(m) ==
    LET rt == ReadPrefixes(m["train"])
        rv == ReadPrefixes(m["valid"])
        rs == ReadPrefixes(m["test"])
    IN  [error |-> IF rt.ok /\ rv.ok /\ rs.ok THEN "none" ELSE "CorruptManifest",
         train |-> IF rt.ok THEN rt.prefixes ELSE <<>>,
         valid |-> IF rt.ok /\ rv.ok THEN rv.prefixes ELSE <<>>,
         test |-> IF rt.ok /\ rv.ok /\ rs.ok THEN rs.prefixes ELSE <<>>]

\* The three write_prefixes calls of the computed branch, in the order train,
\* valid, test; the first refused write raises and the later files stay.
WriteAll(train, valid, test, m) ==
    LET wt == WritePrefixes(train, m["train"])
        wv == WritePrefixes(valid, m["valid"])
        ws == WritePrefixes(test, m["test"])
    IN  [error |-> IF wt.ok /\ wv.ok /\ ws.ok THEN "none" ELSE "InvalidState",
         manifest |-> [f \in Splits |->
                         IF f = "train" THEN wt.file
                         ELSE IF f = "valid" THEN (IF wt.ok THEN wv.file ELSE m[f])
                         ELSE (IF wt.ok /\ wv.ok THEN ws.file ELSE m[f])]]

\* A partial branch that subtracts the validation prefixes only.
RemainingPrefixesValidOnly(prefixes, valid, test) == Range(prefixes) \ Range(valid)

\* set(prefixes) - set(valid) - set(test) of the partial branch.
RemainingPrefixes(prefixes, valid, test) ==
    (Range(prefixes) \ Range(valid)) \ Range(test)

\* The three tests make_data_splits makes of the manifest files that exist.
AllExist(m) == m["train"].exists /\ m["valid"].exists /\ m["test"].exists

NoneExist(m) == ~m["train"].exists /\ ~m["valid"].exists /\ ~m["test"].exists

\* A partial-branch test satisfied by either evaluation manifest.
OnlyTrainMissingLoose(m) == ~m["train"].exists /\ (m["valid"].exists \/ m["test"].exists)

OnlyTrainMissing(m) == ~m["train"].exists /\ m["valid"].exists /\ m["test"].exists

\* make_data_splits(max_samples).  CorruptManifest, InvalidState and
\* EmptyCorpus are PersephoneException raised by read_prefixes, write_prefixes
\* and determine_prefixes; UnsupportedManifestState is NotImplementedError.
MakeDataSplits ==
    /\ pc = "splits"
    /\ IF AllExist(manifest)
       THEN LET r == LoadAll(manifest)
            IN  /\ train_prefixes' = r.train
                /\ valid_prefixes' = r.valid
                /\ test_prefixes' = r.test
                /\ branch' = "loaded"
                /\ IF r.error = "none" THEN pc' = "sort" /\ error' = error
                   ELSE Raise(r.error)
                /\ UNCHANGED <<manifest, rng_state>>
       ELSE \E label_prefixes \in GlobOrders(label_files),
               wav_prefixes \in GlobOrders(wav_files) :
            LET found == DeterminePrefixes(label_prefixes, wav_prefixes)
                prefixes == FilterBySize(found.prefixes, feat_len, max_samples)
            IN
            IF ~found.ok
            THEN /\ Raise("EmptyCorpus")
                 /\ UNCHANGED <<splitVars, manifest, rng_state, branch>>
            ELSE IF NoneExist(manifest)
            THEN LET d == DividePrefixes(prefixes, DefaultSeed, rng_state)
                     w == WriteAll(d.train, d.valid, d.test, manifest)
                 IN  /\ branch' = "computed"
                     /\ rng_state' = d.rng
                     /\ IF ~d.ok
                        THEN /\ Raise("AssertionError")
                             /\ UNCHANGED <<splitVars, manifest>>
                        ELSE /\ train_prefixes' = d.train
                             /\ valid_prefixes' = d.valid
                             /\ test_prefixes' = d.test
                             /\ manifest' = w.manifest
                             /\ IF w.error = "none"
                                THEN pc' = "sort" /\ error' = error
                                ELSE Raise(w.error)
            ELSE IF OnlyTrainMissing(manifest)
            THEN LET rv == ReadPrefixes(manifest["valid"])
                     rs == ReadPrefixes(manifest["test"])
                 IN  /\ branch' = "partial"
                     /\ rng_state' = rng_state
                     /\ IF ~rv.ok \/ ~rs.ok
                        THEN /\ Raise("CorruptManifest")
                             /\ valid_prefixes' = IF rv.ok THEN rv.prefixes ELSE <<>>
                             /\ UNCHANGED <<train_prefixes, test_prefixes, manifest>>
                        ELSE \E train \in Orderings(RemainingPrefixes(prefixes,
                                                       rv.prefixes, rs.prefixes)) :
                             LET w == WritePrefixes(train, manifest["train"])
                             IN  /\ valid_prefixes' = rv.prefixes
                                 /\ test_prefixes' = rs.prefixes
                                 /\ train_prefixes' = train
                                 /\ manifest' = [manifest EXCEPT !["train"] = w.file]
                                 /\ IF w.ok THEN pc' = "sort" /\ error' = error
                                    ELSE Raise("InvalidState")
            ELSE /\ Raise("UnsupportedManifestState")
                 /\ branch' = "unsupported"
                 /\ UNCHANGED <<splitVars, manifest, rng_state>>
    /\ UNCHANGED <<dirs, wav_files, label_files, mono_files, feat_files, feat_len,
                   snapshot, labelVars, histVars, labels_arg, warnings,
                   extract_calls,
                   convert_calls, elanVars>>

\* self.train_prefixes = utils.sort_by_size(...): loading the feature artifact
\* of a prefix that has none raises FileNotFoundError.
SortTrainPrefixes ==
    /\ pc = "sort"
    /\ IF Range(train_prefixes) \subseteq feat_files
       THEN /\ train_prefixes' = SortBySize(train_prefixes, feat_len)
            /\ pc' = "overlap"
            /\ error' = error
       ELSE /\ Raise("FileNotFoundError")
            /\ train_prefixes' = train_prefixes
    /\ UNCHANGED <<diskVars, labelVars, valid_prefixes, test_prefixes, histVars,
                   rng_state, labels_arg, branch, warnings, extract_calls,
                   convert_calls, elanVars>>

\* ensure_no_set_overlap
EnsureNoSetOverlap ==
    /\ pc = "overlap"
    /\ LET train == Range(train_prefixes)
           valid == Range(valid_prefixes)
           test == Range(test_prefixes)
       IN  IF OverlapAssertsHold(train, valid, test)
           THEN /\ warnings' = warnings \cup OverlapWarnings(train, valid, test)
                /\ pc' = "pickle"
                /\ error' = error
           ELSE /\ Raise("AssertionError")
                /\ warnings' = warnings
    /\ UNCHANGED <<diskVars, labelVars, splitVars, histVars, rng_state,
                   labels_arg, branch, extract_calls,
                   convert_calls, elanVars>>

\* The end of __init__: get_untranscribed_prefixes, utterances = None, and
\* pickle(), which writes the snapshot corpus.p.
Pickle ==
    /\ pc = "pickle"
    /\ snapshot' = [exists |-> TRUE, train |-> train_prefixes,
                    valid |-> valid_prefixes, test |-> test_prefixes]
    /\ utterances' = NoUtterances
    /\ snapshot_utterances' = utterances'
    /\ pc' = "done"
    /\ UNCHANGED <<dirs, wav_files, label_files, mono_files, feat_files, feat_len,
                   manifest, labelVars, splitVars, histVars, rng_state,
                   labels_arg, error, branch, warnings, extract_calls,
                   convert_calls, elan_utterances>>

\* ------------------------------------------------------------------------
\* The caller: a further construction over the same wav/ and label/ files
\* ------------------------------------------------------------------------

\* A new Corpus object: every field unset.  `deleted` tells whether the
\* manifests are deleted before the call.
NewConstruction(deleted) ==
    /\ pc \in {"done", "failed"}
    /\ run < MaxRuns
    /\ run' = run + 1
    /\ prev' = [pc |-> pc, error |-> error, branch |-> branch,
                manifest |-> manifest, deleted |-> deleted,
                extract_calls |-> extract_calls,
                snapshot |-> snapshot,
                train |-> train_prefixes, valid |-> valid_prefixes,
                test |-> test_prefixes]
    /\ labels' = {}
    /\ vocab_size' = 0
    /\ LABEL_TO_INDEX' = <<>>
    /\ INDEX_TO_LABEL' = <<>>
    /\ train_prefixes' = <<>>
    /\ valid_prefixes' = <<>>
    /\ test_prefixes' = <<>>
    /\ pc' = "start"
    /\ error' = "none"
    /\ branch' = "none"
    /\ warnings' = {}
    /\ extract_calls' = 0
    /\ convert_calls' = 0
    /\ utterances' = NoUtterances
    /\ UNCHANGED <<elan_utterances, snapshot_utterances>>

\* The constructor is called again on the target directory as it is.
Rerun ==
    /\ NewConstruction(FALSE)
    /\ UNCHANGED <<diskVars, rng_state, labels_arg>>

\* The three manifests are deleted (or the wav/ and label/ files are copied to
\* a new target directory) and the constructor is called again.
RerunWithoutManifests ==
    /\ NewConstruction(TRUE)
    /\ \E f \in Splits : manifest[f].exists
    /\ manifest' = NoManifests
    /\ UNCHANGED <<dirs, wav_files, label_files, mono_files, feat_files, feat_len,
                   snapshot, rng_state, labels_arg>>

\* from_elan after the constructor has returned: corpus.utterances = utterances.
FromElanReturn ==
    /\ pc = "done"
    /\ elan_utterances.given
    /\ utterances = NoUtterances
    /\ utterances' = elan_utterances
    /\ UNCHANGED <<diskVars, labelVars, splitVars, histVars, rng_state, labels_arg,
                   pc, error, branch, warnings, extract_calls, convert_calls,
                   elan_utterances, snapshot_utterances>>

Next ==
    \/ SetAndCheckDirectories
    \/ InitializeLabels
    \/ PrepareFeats
    \/ MakeDataSplits
    \/ SortTrainPrefixes
    \/ EnsureNoSetOverlap
    \/ Pickle
    \/ FromElanReturn
    \/ Rerun
    \/ RerunWithoutManifests

Spec == Init /\ [][Next]_vars

\* ------------------------------------------------------------------------
\* PrefixStore on its own: write_prefixes(prefixes, prefix_fn) followed by
\* read_prefixes(prefix_fn), for any list and any earlier content of the file.
\* The file at prefix_fn is manifest["train"], the list written is
\* train_prefixes and the list read back is valid_prefixes.
\* ------------------------------------------------------------------------

\* In-memory prefixes: the empty string, names, and names surrounded by blanks.
StorePrefixes == (0 - SmallN + 1)..(SmallN - 1)

\* The lines a file at prefix_fn may hold.
StoreLines == {Line(p, w) : p \in 0..(SmallN - 1), w \in BOOLEAN}

StoreFiles == {NoFile} \cup {File(ls) : ls \in SeqsUpTo(StoreLines, MaxLines)}

InitStore ==
    /\ manifest \in {[NoManifests EXCEPT !["train"] = f] : f \in StoreFiles}
    /\ train_prefixes \in SeqsUpTo(StorePrefixes, MaxLines)
    /\ valid_prefixes = <<>>
    /\ test_prefixes = <<>>
    /\ prev = [NoPrev EXCEPT !.manifest = manifest]
    /\ pc = "store_write"
    /\ error = "none"
    /\ branch = "none"
    /\ warnings = {}
    /\ dirs = AllDirs
    /\ wav_files = {}
    /\ label_files = {}
    /\ mono_files = {}
    /\ feat_files = {}
    /\ feat_len = FeatLenOf(0)
    /\ snapshot = NoSnapshot
    /\ rng_state = 0
    /\ labels_arg = {}
    /\ labels = {}
    /\ vocab_size = 0
    /\ LABEL_TO_INDEX = <<>>
    /\ INDEX_TO_LABEL = <<>>
    /\ extract_calls = 0
    /\ convert_calls = 0
    /\ elan_utterances = NoUtterances
    /\ utterances = NoUtterances
    /\ snapshot_utterances = NoUtterances
    /\ run = 1

\* write_prefixes(train_prefixes, prefix_fn)
StoreWrite ==
    /\ pc = "store_write"
    /\ LET w == WritePrefixes(train_prefixes, manifest["train"])
       IN  /\ manifest' = [manifest EXCEPT !["train"] = w.file]
           /\ IF w.ok THEN pc' = "store_read" /\ error' = error
                      ELSE Raise("InvalidState")
    /\ UNCHANGED <<dirs, wav_files, label_files, mono_files, feat_files, feat_len,
                   snapshot, labelVars, splitVars, histVars, rng_state, labels_arg,
                   branch, warnings, extract_calls, convert_calls, elanVars>>

\* read_prefixes(prefix_fn) on the file just written
StoreRead ==
    /\ pc = "store_read"
    /\ LET r == ReadPrefixes(manifest["train"])
       IN  IF r.ok
           THEN valid_prefixes' = r.prefixes /\ pc' = "store_done" /\ error' = error
           ELSE valid_prefixes' = valid_prefixes /\ Raise("CorruptManifest")
    /\ UNCHANGED <<diskVars, labelVars, train_prefixes, test_prefixes, histVars,
                   rng_state, labels_arg, branch, warnings, extract_calls,
                   convert_calls, elanVars>>

NextStore ==
    \/ StoreWrite
    \/ StoreRead

SpecStore == InitStore /\ [][NextStore]_vars


\* ------------------------------------------------------------------------
\* Properties
\* ------------------------------------------------------------------------

\* The discovered and size-capped universe of the target directory.
Universe == {p \in wav_files \cap label_files : feat_len[p] <= max_samples}

Disjoint(A, B) == A \cap B = {}

PairwiseDisjoint(train, valid, test) ==
    Disjoint(train, valid) /\ Disjoint(train, test) /\ Disjoint(valid, test)

\* The manifest files that exist.
Existing(m) == {f \in Splits : m[f].exists}

\* The prefixes a manifest file holds, line by line.
FileTexts(file) == [i \in 1..Len(file.lines) |-> file.lines[i].text]

\* C1: in the none-exist branch, for a fixed prefix universe and the default
\* seed, two independent runs of the split produce identical ordered train,
\* valid and test lists: a construction that computes the split after an
\* earlier construction computed it over the same wav and label files (its
\* manifests deleted in between) writes the same three manifests, line for
\* line, and holds the same three lists in memory, whatever the state of the
\* random generator and the order of the directory listings at either run.
C1_SplitDeterministic ==
    (pc = "sort" /\ branch = "computed" /\ prev.branch = "computed" /\ prev.pc = "done")
        => /\ manifest = prev.manifest
           /\ train_prefixes = FileTexts(prev.manifest["train"])
           /\ valid_prefixes = prev.valid
           /\ test_prefixes = prev.test

\* A second computed split of a universe large enough to split, whose train
\* list is not in sorted order.
C1_Witness ==
    /\ pc = "sort" /\ branch = "computed" /\ run = 2
    /\ prev.branch = "computed" /\ prev.pc = "done"
    /\ train_prefixes # SortedSeq(Range(train_prefixes))
    /\ Cardinality(Universe) = MaxN

\* C2: in the none-exist branch with a universe of N prefixes, whenever the
\* split succeeds |train| = floor(0.9 N), |valid| = floor(floor(0.9 N) +
\* 0.05 N) - floor(0.9 N), |test| = N - |train| - |valid|, and train, valid
\* and test are, in this order, contiguous ranges of one list that holds
\* every prefix of the universe once.
C2_SliceSizes ==
    (pc = "sort" /\ branch = "computed") =>
        LET n == Cardinality(Universe)
            floor_train == (9 * n) \div 10
            floor_valid == (20 * floor_train + n) \div 20
            whole == train_prefixes \o valid_prefixes \o test_prefixes
        IN  /\ Len(train_prefixes) = floor_train
            /\ Len(valid_prefixes) = floor_valid - floor_train
            /\ Len(test_prefixes) = n - Len(train_prefixes) - Len(valid_prefixes)
            /\ Len(whole) = n
            /\ Range(whole) = Universe
            /\ whole = Shuffle(SortedSeq(Universe), Seeded(DefaultSeed)).list

\* A computed split of 21 prefixes into 18, 1 and 2.
C2_Witness ==
    /\ pc = "sort" /\ branch = "computed"
    /\ Len(train_prefixes) = 18 /\ Len(valid_prefixes) = 1 /\ Len(test_prefixes) = 2

\* C3 as stated: whenever split resolution completes through the computed or
\* the partial branch, train, valid and test are pairwise disjoint.
C3_Original ==
    (pc = "sort" /\ branch \in {"computed", "partial"}) =>
        PairwiseDisjoint(Range(train_prefixes), Range(valid_prefixes),
                         Range(test_prefixes))

\* C3 as amended: after the computed branch the three splits are pairwise
\* disjoint; after the partial branch train shares no prefix with valid or
\* test, and valid and test, which are loaded as they are, share no prefix
\* if the two manifest files name no common prefix.
C3_SplitsDisjoint ==
    /\ (pc = "sort" /\ branch = "computed") =>
           PairwiseDisjoint(Range(train_prefixes), Range(valid_prefixes),
                            Range(test_prefixes))
    /\ (pc = "sort" /\ branch = "partial") =>
           /\ Disjoint(Range(train_prefixes), Range(valid_prefixes))
           /\ Disjoint(Range(train_prefixes), Range(test_prefixes))
           /\ Disjoint(Range(FileTexts(manifest["valid"])),
                       Range(FileTexts(manifest["test"])))
                  => Disjoint(Range(valid_prefixes), Range(test_prefixes))

\* A completed partial branch in which valid and test each name a discovered
\* prefix and a discovered prefix is left for train.
C3_Witness ==
    /\ pc = "sort" /\ branch = "partial"
    /\ Range(valid_prefixes) \cap Universe # {}
    /\ Range(test_prefixes) \cap Universe # {}
    /\ Disjoint(Range(valid_prefixes), Range(test_prefixes))
    /\ train_prefixes # <<>>


\* The splits the overlap audit is about to examine share a prefix.
SplitsOverlap ==
    ~PairwiseDisjoint(Range(train_prefixes), Range(valid_prefixes),
                      Range(test_prefixes))

\* C4 as stated: overlap between splits is a soft failure: when the three
\* resolved splits are not pairwise disjoint, the overlap audit only logs a
\* warning and construction goes on to complete.
C4_Original ==
    [][(pc = "overlap" /\ SplitsOverlap) => (pc' = "pickle" /\ warnings' # {})]_vars

\* C4 as amended: overlap between splits is a hard failure: when the three
\* resolved splits are not pairwise disjoint, the overlap audit raises
\* AssertionError before it logs any warning, and construction does not
\* complete (no snapshot is written); the audit logs no warning in any
\* construction.
C4_OverlapIsFatal ==
    [][(pc = "overlap" /\ SplitsOverlap) =>
           /\ pc' = "failed" /\ error' = "AssertionError"
           /\ warnings' = {} /\ snapshot' = snapshot]_vars

\* Three manifests pre-exist, train and valid share a prefix, and the audit
\* has ended the construction.
C4_Witness ==
    /\ pc = "failed" /\ error = "AssertionError" /\ branch = "loaded"
    /\ ~Disjoint(Range(train_prefixes), Range(valid_prefixes))
    /\ ~snapshot.exists

\* C5: every Corpus whose construction reaches the snapshot step has pairwise
\* disjoint train, valid and test splits, whichever branch resolved them,
\* the all-three-exist branch with user-supplied manifests included.
C5_CompletedDisjoint ==
    pc \in {"pickle", "done"} =>
        PairwiseDisjoint(Range(train_prefixes), Range(valid_prefixes),
                         Range(test_prefixes))

\* A first construction completed from three user-supplied manifests.
C5_Witness ==
    /\ pc = "done" /\ branch = "loaded" /\ run = 1
    /\ snapshot.exists

\* C6: when valid and test manifests exist and train does not, split
\* resolution leaves valid_prefixes.txt and test_prefixes.txt as they are
\* whether or not it completes, and when it completes valid and test are the
\* prefixes of the two files, train contains only discovered prefixes and no
\* prefix listed in valid or test, and train_prefixes.txt has been created
\* with exactly the train split, one prefix per line in order.
C6_PartialBranch ==
    [][(pc = "splits" /\ Existing(manifest) = {"valid", "test"}) =>
           /\ manifest'["valid"] = manifest["valid"]
           /\ manifest'["test"] = manifest["test"]
           /\ pc' = "sort" =>
                 /\ valid_prefixes' = FileTexts(manifest["valid"])
                 /\ test_prefixes' = FileTexts(manifest["test"])
                 /\ Range(train_prefixes') \subseteq wav_files \cap label_files
                 /\ Disjoint(Range(train_prefixes'),
                             Range(valid_prefixes') \cup Range(test_prefixes'))
                 /\ manifest'["train"].exists
                 /\ manifest'["train"].lines =
                        [i \in 1..Len(train_prefixes') |-> Line(train_prefixes'[i], FALSE)]
      ]_vars

\* A completed partial branch that wrote a train manifest of two prefixes
\* while valid names a discovered prefix.
C6_Witness ==
    /\ pc = "sort" /\ branch = "partial" /\ run = 1
    /\ Len(train_prefixes) = 2
    /\ manifest["train"].exists
    /\ Range(valid_prefixes) \cap Universe # {}

\* C7: when all three manifest files exist, split resolution writes and
\* modifies no manifest file; it completes if and only if each file has a
\* line, whatever the wav and label directories and the feature lengths
\* hold, and then train, valid and test are the contents of the files line
\* by line in file order.
C7_LoadedVerbatim ==
    [][(pc = "splits" /\ Existing(manifest) = Splits) =>
           /\ manifest' = manifest
           /\ pc' = "sort" <=> \A f \in Splits : manifest[f].lines # <<>>
           /\ pc' = "sort" =>
                 /\ train_prefixes' = FileTexts(manifest["train"])
                 /\ valid_prefixes' = FileTexts(manifest["valid"])
                 /\ test_prefixes' = FileTexts(manifest["test"])
      ]_vars

\* Three manifests loaded where train lists two prefixes out of sorted order,
\* one of which is not a discovered prefix.
C7_Witness ==
    /\ pc = "sort" /\ branch = "loaded"
    /\ train_prefixes = <<3, 1>>
    /\ 3 \notin wav_files \cap label_files

\* One of the five manifest-existence combinations that are not handled.
UnsupportedCombination(m) ==
    Existing(m) \in {{"train"}, {"valid"}, {"test"},
                     {"train", "valid"}, {"train", "test"}}

\* C8 as stated: for each of the five combinations other than all exist,
\* none exist, only valid and test exist, split resolution fails with
\* UnsupportedManifestState whatever the wav and label directories hold.
C8_Original ==
    [][(pc = "splits" /\ UnsupportedCombination(manifest)) =>
           (pc' = "failed" /\ error' = "UnsupportedManifestState")]_vars

\* C8 as amended: for each of those five combinations split resolution fails
\* and leaves the manifests as they are; it fails with
\* UnsupportedManifestState if some prefix has both a wav and a label file,
\* and with EmptyCorpus, raised by the discovery that runs first, if none has.
C8_UnsupportedCombinations ==
    [][(pc = "splits" /\ UnsupportedCombination(manifest)) =>
           /\ pc' = "failed"
           /\ manifest' = manifest
           /\ error' = IF wav_files \cap label_files = {} THEN "EmptyCorpus"
                       ELSE "UnsupportedManifestState"]_vars

\* Only the valid manifest exists, the universe is not empty, and split
\* resolution has failed.
C8_Witness ==
    /\ pc = "failed" /\ error = "UnsupportedManifestState"
    /\ ~manifest["train"].exists /\ manifest["valid"].exists /\ ~manifest["test"].exists
    /\ wav_files \cap label_files # {}

\* C9: in the none-exist branch the split fails with the empty-slice assertion
\* exactly when one of the three slices would be empty; it does for every
\* universe size N with 1 <= N <= 19 and for no N >= 20.
C9_EmptySliceAssertion ==
    branch = "computed" =>
        LET n == Cardinality(Universe)
            floor_train == (9 * n) \div 10
            floor_valid == (20 * floor_train + n) \div 20
            some_empty == floor_train = 0 \/ floor_valid = floor_train \/ floor_valid = n
        IN  /\ error \in {"none", "AssertionError"}
            /\ error = "AssertionError" <=> some_empty
            /\ (1 <= n /\ n <= 19) => error = "AssertionError"
            /\ n >= 20 => error = "none"

\* The computed branch has failed on a universe of 19 prefixes.
C9_Witness ==
    /\ branch = "computed" /\ pc = "failed" /\ error = "AssertionError"
    /\ Cardinality(Universe) = 19

\* C10: for any label set L the label index is a bijection between
\* L \cup {"pad"} and the indices 0..vocab_size, index_to_label and
\* label_to_index are inverse to each other, and "pad" has index 0, also when
\* L itself contains "pad".
C10_LabelIndexBijection ==
    DOMAIN INDEX_TO_LABEL # {} =>
        /\ DOMAIN LABEL_TO_INDEX = labels \cup {"pad"}
        /\ DOMAIN INDEX_TO_LABEL = 0..vocab_size
        /\ \A t \in labels \cup {"pad"} : INDEX_TO_LABEL[LABEL_TO_INDEX[t]] = t
        /\ \A i \in 0..vocab_size : LABEL_TO_INDEX[INDEX_TO_LABEL[i]] = i
        /\ LABEL_TO_INDEX["pad"] = 0


\* A manifest file that exists and is empty once blank lines are stripped.
BlankOnly(file) == file.exists /\ \A i \in DOMAIN file.lines : file.lines[i].text = 0

\* The manifest files split resolution reads, given those that exist.
FilesRead(m) ==
    IF Existing(m) = Splits THEN Splits
    ELSE IF Existing(m) = {"valid", "test"} /\ wav_files \cap label_files # {}
    THEN {"valid", "test"}
    ELSE {}

\* C11: reading an existing manifest file whose content is empty after
\* stripping blank lines (a zero-byte file, or a file of blank or
\* whitespace-only lines) fails with CorruptManifest: when split resolution
\* reads such a file it raises CorruptManifest, and no split is loaded as an
\* empty list or as a list of empty-string prefixes.
C11_BlankManifestIsCorrupt ==
    [][(pc = "splits" /\ \E f \in FilesRead(manifest) : BlankOnly(manifest[f])) =>
           (pc' = "failed" /\ error' = "CorruptManifest")]_vars

\* The previous construction got past the feature gate.
PrevPassedFeats ==
    /\ prev.pc \in {"splits", "sort", "overlap", "pickle", "done", "failed"}
    /\ prev.pc = "failed" => prev.error # "DirectoryError"

\* C12: one call of prepare_feats runs the batched extraction at most once,
\* and runs it exactly when some wav of wav/ lacked its feature artifact; a
\* call made when every wav has its artifact normalises nothing, extracts
\* nothing and leaves the files of feat/ as they were; after the call every
\* wav has its artifact, so the feature gate of a construction that follows
\* one which got past the gate never extracts again.
C12_LazyIdempotentFeats ==
    [][pc = "feats" =>
          LET lacking == wav_files \ feat_files
          IN  /\ extract_calls' = extract_calls + (IF lacking # {} THEN 1 ELSE 0)
              /\ lacking = {} => /\ convert_calls' = convert_calls
                                 /\ feat_files' = feat_files
                                 /\ mono_files' = mono_files
              /\ wav_files \subseteq feat_files'
              /\ (run >= 2 /\ PrevPassedFeats) =>
                     extract_calls' = 0 /\ convert_calls' = 0]_vars

\* The second construction has passed a feature gate that did nothing, after a
\* first one that extracted.
C12_Witness ==
    /\ run = 2
    /\ pc = "splits"
    /\ prev.extract_calls = 1
    /\ wav_files # {}
    /\ extract_calls = 0
    /\ convert_calls = 0

\* C13: writing an empty prefix list fails with InvalidState and has no effect
\* on disk: a file already at the path keeps its content and no file is
\* created if there was none.
C13_EmptyWriteRefused ==
    [][(pc = "store_write" /\ train_prefixes = <<>>) =>
           (pc' = "failed" /\ error' = "InvalidState" /\ manifest' = manifest)]_vars

\* An empty list was refused over a file that held two lines.
C13_Witness ==
    /\ pc = "failed"
    /\ error = "InvalidState"
    /\ train_prefixes = <<>>
    /\ prev.manifest["train"].exists
    /\ Len(prev.manifest["train"].lines) = 2
    /\ manifest = prev.manifest

\* C14: for a non-empty list of prefixes without surrounding blanks, writing
\* the list and reading the file back returns the list, in the same order,
\* whatever the file held before the write.
C14_RoundTrip ==
    [][(pc = "store_read" /\ \A i \in DOMAIN train_prefixes : train_prefixes[i] >= 0) =>
           (pc' = "store_done" /\ valid_prefixes' = train_prefixes)]_vars

\* Two names in descending order were written over a file that held other
\* lines and were read back.
C14_Witness ==
    /\ pc = "store_done"
    /\ Len(train_prefixes) = 2
    /\ train_prefixes[1] > train_prefixes[2]
    /\ train_prefixes[2] > 0
    /\ prev.manifest["train"].lines # <<>>
    /\ valid_prefixes = train_prefixes

\* C15 as stated: in every manifest-existence state, split resolution over a
\* directory where no prefix has both a wav file and a label file fails with
\* EmptyCorpus.
C15_Original ==
    [][(pc = "splits" /\ wav_files \cap label_files = {}) =>
           (pc' = "failed" /\ error' = "EmptyCorpus")]_vars

\* C15: over a directory where no prefix has both a wav file and a label
\* file, split resolution fails with EmptyCorpus, and leaves the manifests as
\* they are, in every manifest-existence state but the one where all three
\* manifests exist; with all three it never fails with EmptyCorpus: it ends
\* as the load of the three files ends.
C15_EmptyCorpus ==
    [][(pc = "splits" /\ wav_files \cap label_files = {}) =>
           IF Existing(manifest) = Splits
           THEN /\ ~(pc' = "failed" /\ error' = "EmptyCorpus")
                /\ pc' = "sort" <=> \A f \in Splits : manifest[f].lines # <<>>
           ELSE /\ pc' = "failed"
                /\ error' = "EmptyCorpus"
                /\ manifest' = manifest]_vars

\* An empty corpus with the valid and test manifests on disk was refused.
C15_Witness ==
    /\ pc = "failed"
    /\ error = "EmptyCorpus"
    /\ wav_files \cap label_files = {}
    /\ wav_files # {}
    /\ Existing(manifest) = {"valid", "test"}

\* C16 as stated: the partial branch applies no size filter: when it completes
\* every discovered prefix in neither valid nor test, over-long ones included,
\* is in the computed and persisted train split.
C16_Original ==
    [][(pc = "splits" /\ Existing(manifest) = {"valid", "test"} /\ pc' = "sort") =>
           /\ (wav_files \cap label_files)
                  \ (Range(valid_prefixes') \cup Range(test_prefixes'))
                  \subseteq Range(train_prefixes')
           /\ Range(FileTexts(manifest'["train"])) = Range(train_prefixes')]_vars

\* C16: the partial branch computes train from the universe the size filter
\* has already capped: when it completes, the computed and persisted train
\* split holds, once each, exactly the discovered prefixes of feature length
\* at most max_samples that are in neither valid nor test, and no prefix
\* whose feature length exceeds max_samples.
C16_PartialTrainIsFiltered ==
    [][(pc = "splits" /\ Existing(manifest) = {"valid", "test"} /\ pc' = "sort") =>
           /\ Range(train_prefixes') =
                  {p \in wav_files \cap label_files : feat_len[p] <= max_samples}
                      \ (Range(valid_prefixes') \cup Range(test_prefixes'))
           /\ Len(train_prefixes') = Cardinality(Range(train_prefixes'))
           /\ FileTexts(manifest'["train"]) = train_prefixes']_vars

\* A completed partial branch over a universe with an over-long prefix that
\* neither valid nor test names.
C16_Witness ==
    /\ pc = "sort"
    /\ branch = "partial"
    /\ train_prefixes # <<>>
    /\ \E p \in wav_files \cap label_files :
           /\ feat_len[p] > max_samples
           /\ p \notin Range(valid_prefixes) \cup Range(test_prefixes)
           /\ p \notin Range(train_prefixes)

\* The size filter removes every discovered prefix.
AllFiltered == wav_files \cap label_files # {} /\ Universe = {}

\* C18 as stated: when the size filter removes every discovered prefix,
\* split resolution fails with InvalidState in the none-exist branch and in
\* the partial branch.
C18_Original ==
    [][(pc = "splits" /\ AllFiltered /\ Existing(manifest) \in {{}, {"valid", "test"}}) =>
           (pc' = "failed" /\ error' = "InvalidState")]_vars

\* C18: when the size filter removes every discovered prefix, split
\* resolution fails: in the none-exist branch with the empty-slice
\* AssertionError of divide_prefixes; in the partial branch with InvalidState
\* when the valid and the test manifest each hold a line, and with
\* CorruptManifest when one of them holds none.
C18_AllFilteredFails ==
    [][(pc = "splits" /\ AllFiltered) =>
           /\ Existing(manifest) = {} =>
                  (pc' = "failed" /\ error' = "AssertionError")
           /\ Existing(manifest) = {"valid", "test"} =>
                  /\ pc' = "failed"
                  /\ error' = IF manifest["valid"].lines # <<>>
                                  /\ manifest["test"].lines # <<>>
                               THEN "InvalidState" ELSE "CorruptManifest"]_vars

\* The partial branch refused to write an empty train split after the size
\* filter removed every discovered prefix.
C18_Witness ==
    /\ pc = "failed"
    /\ error = "InvalidState"
    /\ branch = "partial"
    /\ AllFiltered
    /\ Cardinality(wav_files \cap label_files) >= 2

\* The order of the steps of the constructor: each step, the step that
\* follows it when it completes.
StepAfter ==
    [start |-> "labels", labels |-> "feats", feats |-> "splits", splits |-> "sort",
     sort |-> "overlap", overlap |-> "pickle", pickle |-> "done"]

\* C17: the constructor runs directory validation, label index construction,
\* feature gate, split resolution, train reordering by size and overlap
\* audit in this order, each step starting only when the one before it has
\* completed; corpus.p is written, and the object returned, only after all of
\* them have completed; a step that fails ends the construction, which
\* writes no snapshot (corpus.p is what it was when the construction began).
C17_FixedOrder ==
    [][/\ pc' # pc =>
             \/ pc \in DOMAIN StepAfter /\ pc' = StepAfter[pc]
             \/ pc \in DOMAIN StepAfter \ {"pickle"} /\ pc' = "failed" /\ error' # "none"
             \/ pc \in {"done", "failed"} /\ pc' = "start"
       /\ pc' \in {"feats", "splits", "sort", "overlap", "pickle", "done"} =>
             /\ LABEL_TO_INDEX' # <<>>
             /\ error' = "none"
       /\ pc' \in {"splits", "sort", "overlap", "pickle", "done"} =>
             wav_files' \subseteq feat_files'
       /\ pc' \in {"sort", "overlap", "pickle", "done"} =>
             branch' \in {"loaded", "computed", "partial"}
       /\ snapshot' # snapshot => pc = "pickle" /\ pc' = "done"
       /\ pc' = "done" =>
             snapshot' = [exists |-> TRUE, train |-> train_prefixes',
                          valid |-> valid_prefixes', test |-> test_prefixes']
       /\ pc' # "done" => snapshot' = prev'.snapshot
      ]_vars

\* A construction failed on a target directory that holds the snapshot of an
\* earlier, completed construction, and left that snapshot as it was.
C17_Witness ==
    /\ run = 2
    /\ pc = "failed"
    /\ prev.pc = "done"
    /\ snapshot.exists
    /\ snapshot = prev.snapshot

\* C19: whenever split resolution raises, whatever the exception, the
\* manifest files on disk and their contents are what they were before the
\* call; a failed none-exist split leaves no manifest behind.
C19_FailedSplitKeepsManifests ==
    [][(pc = "splits" /\ pc' = "failed") =>
           /\ manifest' = manifest
           /\ Existing(manifest) = {} => Existing(manifest') = {}
           /\ error' \in {"AssertionError", "UnsupportedManifestState", "EmptyCorpus",
                           "CorruptManifest", "InvalidState"}]_vars

\* A none-exist split over ten prefixes failed on its empty validation slice
\* and left no manifest.
C19_Witness ==
    /\ pc = "failed"
    /\ error = "AssertionError"
    /\ branch = "computed"
    /\ Cardinality(Universe) = 10
    /\ Existing(manifest) = {}
    /\ run = 1

\* The current construction runs on the target directory a completed
\* construction left, that one having computed its split (none-exist or
\* partial branch), with nothing changed in between.
RerunAfterSuccess ==
    /\ run >= 2
    /\ prev.pc = "done"
    /\ prev.branch \in {"computed", "partial"}
    /\ ~prev.deleted

Count(s, p) == Cardinality({i \in DOMAIN s : s[i] = p})

\* C21: the reordering step of the constructor turns the train split that
\* split resolution produced into a permutation of it (every prefix listed as
\* many times as before) in non-decreasing order of feature length, and
\* leaves valid and test in the order split resolution produced; the overlap
\* audit and the snapshot step that follow change none of the three lists.
C21_TrainSortedBySize ==
    [][/\ (pc = "sort" /\ pc' = "overlap") =>
             /\ Len(train_prefixes') = Len(train_prefixes)
             /\ \A p \in Range(train_prefixes) \cup Range(train_prefixes') :
                    Count(train_prefixes', p) = Count(train_prefixes, p)
             /\ \A i, j \in DOMAIN train_prefixes' :
                    i < j => feat_len[train_prefixes'[i]] <= feat_len[train_prefixes'[j]]
             /\ valid_prefixes' = valid_prefixes
             /\ test_prefixes' = test_prefixes
       /\ (pc \in {"overlap", "pickle"} /\ pc' \in {"pickle", "done"}) =>
             /\ train_prefixes' = train_prefixes
             /\ valid_prefixes' = valid_prefixes
             /\ test_prefixes' = test_prefixes
      ]_vars

\* A completed construction whose train split was reordered (it is no longer
\* in the order of train_prefixes.txt) and whose two test prefixes are still
\* in the order of test_prefixes.txt, the longer one first.
C21_Witness ==
    /\ pc = "done"
    /\ branch = "computed"
    /\ FileTexts(manifest["train"]) # train_prefixes
    /\ Range(FileTexts(manifest["train"])) = Range(train_prefixes)
    /\ test_prefixes = FileTexts(manifest["test"])
    /\ Len(test_prefixes) = 2
    /\ feat_len[test_prefixes[1]] > feat_len[test_prefixes[2]]

\* from_pickle(tgt_dir): the utterances field of the object stored in corpus.p.
FromPickle == snapshot_utterances

\* C22: once from_elan has returned its corpus, restoring the snapshot
\* corpus.p written during that construction gives a corpus that holds the
\* same utterance records as the returned object.
C22_SnapshotHoldsUtterances ==
    (pc = "done" /\ elan_utterances.given /\ utterances.given /\ snapshot.exists) =>
        FromPickle = utterances

====
